---- MODULE Spec2Model ----
(***************************************************************************)
(* Crest-anchored NAVD88 peak cache updaters of hondrospj/sea_bright_test. *)
(*                                                                         *)
(* Two near-identical scripts maintain data/peaks_navd88.json:             *)
(*   "part_000"             src/unnamed/part_000 (USGS 01412150)           *)
(*   "update_peaks_navd88"  src/tools/update_peaks_navd88.js:215-570       *)
(*                          (Sea Bright)                                   *)
(* Each run of main() loads the cache, picks a fetch window, fetches the   *)
(* observed series and the predicted high-tide crests, builds the          *)
(* crest-anchored events, merges them by crest key and saves the cache.    *)
(*                                                                         *)
(* A third script, src/tools /update_seabright_peaks_navd88.js, finds the   *)
(* peaks of the NWPS observed and forecast series (findPeaks) and merges   *)
(* them by time into data/seabright_peaks_navd88.json (mergeByTime).       *)
(*                                                                         *)
(* Specifications: Spec (the two crest-anchored updaters with providers    *)
(* that may answer anything), SpecHeld (the same with providers answering  *)
(* in full), SpecNwps (runs of the NWPS updater), SpecBuilder, SpecPeaks   *)
(* and SpecClassify (one function applied to every bounded input).         *)
(*                                                                         *)
(* Units: instants are whole hours since 2000-01-01T00:00:00Z; raw water   *)
(* levels are in 1e-4 ft, stored (rounded) levels in 1e-3 ft. In the NWPS  *)
(* updater levels are in 1e-3 ft and stored (2-decimal) levels in 1e-2 ft. *)
(***************************************************************************)
EXTENDS Integers, Sequences, FiniteSets, TLC

VARIABLES script, file, now, pc, run, result, runs, upstream, tide, call, ret

vars == <<script, file, now, pc, run, result, runs, upstream, tide, call, ret>>

(***************************************************************************)
(* Bounds of the model.                                                    *)
(***************************************************************************)
MaxSeries == 2
MaxCrests == 2
MaxRuns == 2
\* longest series and crest list handed to the builder on its own
MaxPts == 3
MaxMarks == 2
\* most points one answer of the USGS IV service holds (declustering updater)
MaxIv == 2
\* longest series handed to findPeaks
MaxPoints == 9

\* instants at which the observation provider may hold a sample
SampleInstants == {8770, 8782, 8784}
\* instants the crest provider may predict a high tide at
CrestInstants == {8781, 8783}
\* raw sample values (1e-4 ft)
SampleValues == {30996, 41900}
\* wall-clock readings of isoNow()
Clock == {8783, 8786}
\* sample and crest instants of the builder applied on its own
GridInstants == 8778..8783
\* NAVD88 levels of the NWPS points (1e-3 ft)
PointValues == {3000, 3100, 3200}
\* findPeaks options: minSeparationHours, minProminenceFt (1e-3 ft)
Separations == {3, 5}
Prominences == {50, 150}
\* levels the thresholds handed to classifyNAVD are drawn from (1e-4 ft)
ThresholdLevels == {21000, 31000, 41000, 51000, 61000}
\* instants and NAVD88 levels (1e-3 ft) of the peaks main hands to mergeByTime
PeakInstants == {8790, 8796}
PeakLevels == {3096, 3104, 4096}
\* instants and water levels (1e-3 ft) of the points of the declustering updater
IvInstants == {8760, 8763, 8769, 8770}
IvValues == {3000, 3100}
\* values of minSepMinutes handed to declusterMax
SepMinutes == {180, 300}
\* values of --backfill-year
YearArgs == {1899, 2000, 2001}

(***************************************************************************)
(* Program constants.                                                      *)
(***************************************************************************)
BUFFER_HOURS == 12
CREST_WINDOW_HOURS == 2
REQUIRE_WITHIN_HOURS == 1
DEFAULT_LAST_ISO == 0
MIN_YEAR == 1900
MAX_YEAR == 3000
PRED_PAD_HOURS == 3
\* declustering window of the declustering updater, in minutes
PEAK_MIN_SEP_MINUTES == 300
\* findPeaks: half-width of the prominence neighbourhood, in samples
windowPts == 6

Scripts == {"part_000", "update_peaks_navd88"}

METHOD(s) == IF s = "part_000" THEN "crest_anchored_highs_v1"
             ELSE "crest_anchored_highs_v1_seabright"

\* THRESH_NAVD88 of the Sea Bright script, in 1e-4 ft
THRESH_NAVD88 == [minorLow |-> 31000, moderateLow |-> 41000, majorLow |-> 51000]

\* absent JSON fields
NoFt == -1
NoCrest == -1
NoISO == -1
NoArg == -1

(***************************************************************************)
(* Helpers.                                                                *)
(***************************************************************************)
Range(s) == {s[i] : i \in 1..Len(s)}

Min2(a, b) == IF a < b THEN a ELSE b
Max2(a, b) == IF a > b THEN a ELSE b

\* Date.UTC(y, 0, 1) in hours since 2000-01-01
DaysBeforeYear(y) == 365 * (y - 1) + ((y - 1) \div 4) - ((y - 1) \div 100) + ((y - 1) \div 400)
YearStart(y) == 24 * (DaysBeforeYear(y) - DaysBeforeYear(2000))

addHoursISO(iso, hours) == iso + hours

\* Number.isFinite(Number(x)) of a stored ft
IsFiniteFt(ft) == ft # NoFt

roundFt(x) == (x + 5) \div 10

\* variant: a value equal to a threshold falls into the category below it
classifyNAVD_Strict(ft, T) ==
    IF ft > T.majorLow THEN "Major"
    ELSE IF ft > T.moderateLow THEN "Moderate"
    ELSE IF ft > T.minorLow THEN "Minor"
    ELSE "Below"

classifyNAVD(ft, T) ==
    IF ft >= T.majorLow THEN "Major"
    ELSE IF ft >= T.moderateLow THEN "Moderate"
    ELSE IF ft >= T.minorLow THEN "Minor"
    ELSE "Below"

(***************************************************************************)
(* Array.prototype.sort with the comparator new Date(a.t) - new Date(b.t): *)
(* a stable sort by t.                                                     *)
(***************************************************************************)
RECURSIVE InsertByT(_, _)
InsertByT(sorted, e) ==
    IF sorted = << >> THEN <<e>>
    ELSE IF sorted[Len(sorted)].t <= e.t THEN Append(sorted, e)
    ELSE Append(InsertByT(SubSeq(sorted, 1, Len(sorted) - 1), e), sorted[Len(sorted)])

RECURSIVE SortFrom(_, _, _)
SortFrom(s, i, acc) ==
    IF i > Len(s) THEN acc ELSE SortFrom(s, i + 1, InsertByT(acc, s[i]))

SortByT(s) == SortFrom(s, 1, << >>)

(***************************************************************************)
(* buildCrestAnchoredHighEvents                                            *)
(***************************************************************************)
\* variant: the left pointer is advanced up to the crest itself
RECURSIVE AdvanceLeft_ToCrest(_, _, _)
AdvanceLeft_ToCrest(pts, left, crestMs) ==
    IF left <= Len(pts) /\ pts[left].t < crestMs
    THEN AdvanceLeft_ToCrest(pts, left + 1, crestMs)
    ELSE left

\* the while loop advancing the shared left pointer
RECURSIVE AdvanceLeft(_, _, _)
AdvanceLeft(pts, left, crestMs) ==
    IF left <= Len(pts) /\ pts[left].t < crestMs - CREST_WINDOW_HOURS
    THEN AdvanceLeft(pts, left + 1, crestMs)
    ELSE left

\* variant: the scan does not stop at the end of the outer window
RECURSIVE ScanWindow_PastWindow(_, _, _, _, _)
ScanWindow_PastWindow(pts, i, crestMs, hasWithin1h, best) ==
    IF i > Len(pts)
    THEN [hasWithin1h |-> hasWithin1h, best |-> best]
    ELSE LET dt == IF pts[i].t >= crestMs THEN pts[i].t - crestMs ELSE crestMs - pts[i].t
         IN ScanWindow_PastWindow(pts, i + 1, crestMs,
                       hasWithin1h \/ dt <= REQUIRE_WITHIN_HOURS,
                       IF best = 0 \/ pts[i].ft > pts[best].ft THEN i ELSE best)

\* variant: any sample of the outer window counts as coverage
RECURSIVE ScanWindow_OuterCounts(_, _, _, _, _)
ScanWindow_OuterCounts(pts, i, crestMs, hasWithin1h, best) ==
    IF i > Len(pts) \/ pts[i].t > crestMs + CREST_WINDOW_HOURS
    THEN [hasWithin1h |-> hasWithin1h, best |-> best]
    ELSE LET dt == IF pts[i].t >= crestMs THEN pts[i].t - crestMs ELSE crestMs - pts[i].t
         IN ScanWindow_OuterCounts(pts, i + 1, crestMs,
                       hasWithin1h \/ dt <= CREST_WINDOW_HOURS,
                       IF best = 0 \/ pts[i].ft > pts[best].ft THEN i ELSE best)

\* the scan of the outer window; best = 0 stands for null, else an index
RECURSIVE ScanWindow(_, _, _, _, _)
ScanWindow(pts, i, crestMs, hasWithin1h, best) ==
    IF i > Len(pts) \/ pts[i].t > crestMs + CREST_WINDOW_HOURS
    THEN [hasWithin1h |-> hasWithin1h, best |-> best]
    ELSE LET dt == IF pts[i].t >= crestMs THEN pts[i].t - crestMs ELSE crestMs - pts[i].t
         IN ScanWindow(pts, i + 1, crestMs,
                       hasWithin1h \/ dt <= REQUIRE_WITHIN_HOURS,
                       IF best = 0 \/ pts[i].ft > pts[best].ft THEN i ELSE best)

RECURSIVE BuildLoop(_, _, _, _, _, _)
BuildLoop(pts, predictedHighs, k, left, out, T) ==
    IF k > Len(predictedHighs) THEN out
    ELSE LET crestMs == predictedHighs[k]
             left2 == AdvanceLeft(pts, left, crestMs)
             scan == ScanWindow(pts, left2, crestMs, FALSE, 0)
         IN IF ~scan.hasWithin1h \/ scan.best = 0
            THEN BuildLoop(pts, predictedHighs, k + 1, left2, out, T)
            ELSE BuildLoop(pts, predictedHighs, k + 1, left2,
                           Append(out, [t |-> pts[scan.best].t,
                                        ft |-> roundFt(pts[scan.best].ft),
                                        type |-> classifyNAVD(pts[scan.best].ft, T),
                                        crest |-> crestMs,
                                        kind |-> "CrestHigh"]), T)

buildCrestAnchoredHighEvents(series, predictedHighs, T) ==
    IF series = << >> \/ predictedHighs = << >> THEN << >>
    ELSE BuildLoop(SortByT(series), predictedHighs, 1, 1, << >>, T)

(***************************************************************************)
(* The merge of main(): dedupe by crest key, keep the best observed max.   *)
(***************************************************************************)
\* byCrest after the loop over existing: key -> index of the last event
\* carrying it (Map.set overwrites); events without a crest are not keyed
ByCrestOf(existing) ==
    [k \in {existing[i].crest : i \in 1..Len(existing)} \ {NoCrest} |->
        CHOOSE i \in 1..Len(existing) :
            /\ existing[i].crest = k
            /\ \A j \in 1..Len(existing) : existing[j].crest = k => j <= i]

\* variants of MergeOne with a slip in the collision branch
MergeOne_UpdateOnTie(m, e) ==
    IF e.crest \notin DOMAIN m.byCrest
    THEN [existing |-> Append(m.existing, e),
          byCrest |-> [k \in DOMAIN m.byCrest \cup {e.crest} |->
                          IF k = e.crest THEN Len(m.existing) + 1 ELSE m.byCrest[k]],
          added |-> m.added + 1,
          updated |-> m.updated]
    ELSE LET idx == m.byCrest[e.crest]
             prev == m.existing[idx]
         IN IF ~IsFiniteFt(prev.ft) \/ (IsFiniteFt(e.ft) /\ e.ft >= prev.ft)
            THEN [m EXCEPT !.existing[idx] = [prev EXCEPT !.t = e.t, !.ft = e.ft,
                                                          !.type = e.type, !.kind = e.kind,
                                                          !.crest = e.crest],
                           !.updated = m.updated + 1]
            ELSE m

MergeOne_LastWins(m, e) ==
    IF e.crest \notin DOMAIN m.byCrest
    THEN [existing |-> Append(m.existing, e),
          byCrest |-> [k \in DOMAIN m.byCrest \cup {e.crest} |->
                          IF k = e.crest THEN Len(m.existing) + 1 ELSE m.byCrest[k]],
          added |-> m.added + 1,
          updated |-> m.updated]
    ELSE LET idx == m.byCrest[e.crest]
             prev == m.existing[idx]
         IN IF e.ft # prev.ft
            THEN [m EXCEPT !.existing[idx] = [prev EXCEPT !.t = e.t, !.ft = e.ft,
                                                          !.type = e.type, !.kind = e.kind,
                                                          !.crest = e.crest],
                           !.updated = m.updated + 1]
            ELSE m

\* variant: an update takes ft and type from the new event but keeps the
\* stored observed time
MergeOne_KeepsTime(m, e) ==
    IF e.crest \notin DOMAIN m.byCrest
    THEN [existing |-> Append(m.existing, e),
          byCrest |-> [k \in DOMAIN m.byCrest \cup {e.crest} |->
                          IF k = e.crest THEN Len(m.existing) + 1 ELSE m.byCrest[k]],
          added |-> m.added + 1,
          updated |-> m.updated]
    ELSE LET idx == m.byCrest[e.crest]
             prev == m.existing[idx]
         IN IF ~IsFiniteFt(prev.ft) \/ (IsFiniteFt(e.ft) /\ e.ft > prev.ft)
            THEN [m EXCEPT !.existing[idx] = [prev EXCEPT !.ft = e.ft, !.type = e.type,
                                                          !.kind = e.kind],
                           !.updated = m.updated + 1]
            ELSE m

\* the pushed event is not registered in byCrest
MergeOne_NoKeySet(m, e) ==
    IF e.crest \notin DOMAIN m.byCrest
    THEN [existing |-> Append(m.existing, e),
          byCrest |-> m.byCrest,
          added |-> m.added + 1,
          updated |-> m.updated]
    ELSE LET idx == m.byCrest[e.crest]
             prev == m.existing[idx]
         IN IF ~IsFiniteFt(prev.ft) \/ (IsFiniteFt(e.ft) /\ e.ft > prev.ft)
            THEN [m EXCEPT !.existing[idx] = [prev EXCEPT !.t = e.t, !.ft = e.ft,
                                                          !.type = e.type, !.kind = e.kind,
                                                          !.crest = e.crest],
                           !.updated = m.updated + 1]
            ELSE m

MergeOne(m, e) ==
    IF e.crest \notin DOMAIN m.byCrest
    THEN [existing |-> Append(m.existing, e),
          byCrest |-> [k \in DOMAIN m.byCrest \cup {e.crest} |->
                          IF k = e.crest THEN Len(m.existing) + 1 ELSE m.byCrest[k]],
          added |-> m.added + 1,
          updated |-> m.updated]
    ELSE LET idx == m.byCrest[e.crest]
             prev == m.existing[idx]
         IN IF ~IsFiniteFt(prev.ft) \/ (IsFiniteFt(e.ft) /\ e.ft > prev.ft)
            THEN [m EXCEPT !.existing[idx] = [prev EXCEPT !.t = e.t, !.ft = e.ft,
                                                          !.type = e.type, !.kind = e.kind,
                                                          !.crest = e.crest],
                           !.updated = m.updated + 1]
            ELSE m

RECURSIVE MergeLoop(_, _, _)
MergeLoop(m, crestHighs, k) ==
    IF k > Len(crestHighs) THEN m
    ELSE MergeLoop(MergeOne(m, crestHighs[k]), crestHighs, k + 1)

\* variants of MergeEvents: the final sort left out; the batch replacing the
\* stored events
MergeEvents_NoSort(existing, crestHighs) ==
    LET m == MergeLoop([existing |-> existing, byCrest |-> ByCrestOf(existing),
                        added |-> 0, updated |-> 0], crestHighs, 1)
    IN [events |-> m.existing, added |-> m.added, updated |-> m.updated]

MergeEvents_OnlyBatch(existing, crestHighs) ==
    LET m == MergeLoop([existing |-> << >>, byCrest |-> ByCrestOf(<< >>),
                        added |-> 0, updated |-> 0], crestHighs, 1)
    IN [events |-> SortByT(m.existing), added |-> m.added, updated |-> m.updated]

\* step 4 of main: merge, then sort by observed time
MergeEvents(existing, crestHighs) ==
    LET m == MergeLoop([existing |-> existing, byCrest |-> ByCrestOf(existing),
                        added |-> 0, updated |-> 0], crestHighs, 1)
    IN [events |-> SortByT(m.existing), added |-> m.added, updated |-> m.updated]

\* variant: the oldest fetched sample instead of the newest
AdvanceLastProcessed_Oldest(cache, series) ==
    IF series # << >> THEN [cache EXCEPT !.lastProcessedISO = series[1].t]
    ELSE cache

\* lastProcessedISO becomes the newest fetched sample time
AdvanceLastProcessed(cache, series) ==
    IF series # << >> THEN [cache EXCEPT !.lastProcessedISO = series[Len(series)].t]
    ELSE cache

(***************************************************************************)
(* State.                                                                  *)
(*   script  which of the two updaters owns this cache file                *)
(*   file    the persisted cache document data/peaks_navd88.json           *)
(*   now     the wall clock                                                *)
(*   pc      position of each run of main(): "idle", "loaded" (window      *)
(*           chosen, awaiting fetchUSGSIV), "fetched" (series in hand,     *)
(*           awaiting fetchNOAAHiloPredictionsHighs)                       *)
(*   run     the locals of main(): in-memory cache, window, series         *)
(*   result  what the last run of each process ended with                  *)
(*   runs    number of runs started                                        *)
(*   upstream, tide   the samples the observation provider holds and the   *)
(*           predicted high-tide crests (used where the providers answer   *)
(*           in full; empty where they may answer anything)                *)
(*   call, ret   the arguments and the return value of a function applied  *)
(*           on its own                                                    *)
(***************************************************************************)
Procs == {"A", "B"}

BlankCache == [method |-> "none", thresholdsNAVD88 |-> << >>,
               lastProcessedISO |-> NoISO, events |-> << >>]

\* no --backfill-year, --backfill-from or --backfill-to on the command line
NoArgs == [year |-> NoArg, from |-> NoArg, to |-> NoArg]

BlankRun == [cache |-> BlankCache, args |-> NoArgs, mode |-> "none", startISO |-> 0,
             endISO |-> 0, series |-> << >>, reset |-> FALSE]

\* outcome: "none" (running or never run), "saved", "skipped" (nothing to do,
\* normal return), "failed" (die or uncaught throw, exit 1); step: where main
\* ended; answer: what the last fetch gave ("throw", "empty", "data");
\* writes: calls of saveJSON; the rest is what the run logged
NoResult == [outcome |-> "none", step |-> "none", answer |-> "none", exit |-> 0, mode |-> "none",
             endISO |-> 0, reset |-> FALSE, crestHighs |-> << >>,
             added |-> 0, updated |-> 0, writes |-> 0]

\* thresholds a cache document of part_000 may carry (1e-4 ft)
CacheThresholds == [minorLow |-> 41900, moderateLow |-> 51900, majorLow |-> 61900]

\* events found in the cache file before the first run
StoredCrestHigh == [t |-> 8782, ft |-> 3100, type |-> "Below", crest |-> 8781, kind |-> "CrestHigh"]
StoredNoFt == [t |-> 8784, ft |-> NoFt, type |-> "Below", crest |-> 8783, kind |-> "CrestHigh"]
StoredLegacy == [t |-> 8782, ft |-> 4500, type |-> "Minor", crest |-> NoCrest, kind |-> "Peak"]

InitialCaches(s) ==
    \* a cache the same updater wrote or was seeded with
    { [method |-> METHOD(s), thresholdsNAVD88 |-> th, lastProcessedISO |-> l, events |-> ev] :
        th \in {<<CacheThresholds>>}, l \in {NoISO, 8782},
        ev \in {<< >>, <<StoredCrestHigh>>, <<StoredCrestHigh, StoredNoFt>>} }
    \cup
    \* a cache left by another method
    { [method |-> m, thresholdsNAVD88 |-> th, lastProcessedISO |-> 8782, events |-> ev] :
        m \in ({"none"} \cup {METHOD(o) : o \in Scripts}) \ {METHOD(s)},
        th \in {<< >>, <<CacheThresholds>>},
        ev \in {<<StoredLegacy>>, <<StoredCrestHigh>>} }

\* no function is being applied on its own
NoCall == [fn |-> "none"]
NoRet == [done |-> FALSE]

Init ==
    /\ script \in Scripts
    /\ file \in InitialCaches(script)
    /\ now = 8783
    /\ pc = [p \in Procs |-> "idle"]
    /\ run = [p \in Procs |-> BlankRun]
    /\ result = [p \in Procs |-> NoResult]
    /\ runs = 0
    /\ upstream = {}
    /\ tide = {}
    /\ call = NoCall
    /\ ret = NoRet

(***************************************************************************)
(* Command line and window selection (main, up to the first fetch).        *)
(***************************************************************************)
\* values of --backfill-from, --backfill-to
RangeArgs == {<<NoArg, NoArg>>, <<2000, NoArg>>, <<2000, 2001>>, <<2001, 2000>>, <<1899, 2000>>}

ArgChoices ==
    { [year |-> y, from |-> NoArg, to |-> NoArg] : y \in YearArgs }
    \cup { [year |-> NoArg, from |-> r[1], to |-> r[2]] : r \in RangeArgs }

\* clampISO(cache.lastProcessedISO || "2000-01-01T00:00:00Z")
clampISO(last) == IF last = NoISO THEN DEFAULT_LAST_ISO ELSE last

\* variant: an incremental run fetches from lastProcessedISO, without overlap
WindowOf_NoBuffer(s, args, cache, clock) ==
    IF args.year # NoArg
    THEN [ok |-> s # "part_000" \/ (args.year >= MIN_YEAR /\ args.year <= MAX_YEAR),
          mode |-> "BackfillYear",
          startISO |-> YearStart(args.year), endISO |-> YearStart(args.year + 1)]
    ELSE IF args.from # NoArg /\ args.to # NoArg
    THEN LET lo == IF s = "part_000" THEN Min2(args.from, args.to) ELSE args.from
             hi == IF s = "part_000" THEN Max2(args.from, args.to) ELSE args.to
         IN [ok |-> IF s = "part_000" THEN lo >= MIN_YEAR /\ hi <= MAX_YEAR ELSE hi >= lo,
             mode |-> "BackfillRange",
             startISO |-> YearStart(lo), endISO |-> YearStart(hi + 1)]
    ELSE [ok |-> TRUE, mode |-> "Incremental",
          startISO |-> clampISO(cache.lastProcessedISO),
          endISO |-> clock]

\* variant: a backfill starts where the previous run stopped
WindowOf_FromLast(s, args, cache, clock) ==
    IF args.year # NoArg
    THEN [ok |-> s # "part_000" \/ (args.year >= MIN_YEAR /\ args.year <= MAX_YEAR),
          mode |-> "BackfillYear",
          startISO |-> addHoursISO(clampISO(cache.lastProcessedISO), 0 - BUFFER_HOURS),
          endISO |-> YearStart(args.year + 1)]
    ELSE IF args.from # NoArg /\ args.to # NoArg
    THEN LET lo == IF s = "part_000" THEN Min2(args.from, args.to) ELSE args.from
             hi == IF s = "part_000" THEN Max2(args.from, args.to) ELSE args.to
         IN [ok |-> IF s = "part_000" THEN lo >= MIN_YEAR /\ hi <= MAX_YEAR ELSE hi >= lo,
             mode |-> "BackfillRange",
             startISO |-> addHoursISO(clampISO(cache.lastProcessedISO), 0 - BUFFER_HOURS),
             endISO |-> YearStart(hi + 1)]
    ELSE [ok |-> TRUE, mode |-> "Incremental",
          startISO |-> addHoursISO(clampISO(cache.lastProcessedISO), 0 - BUFFER_HOURS),
          endISO |-> clock]

\* the window of a run: ok = FALSE where main calls die()
WindowOf(s, args, cache, clock) ==
    IF args.year # NoArg
    THEN [ok |-> s # "part_000" \/ (args.year >= MIN_YEAR /\ args.year <= MAX_YEAR),
          mode |-> "BackfillYear",
          startISO |-> YearStart(args.year), endISO |-> YearStart(args.year + 1)]
    ELSE IF args.from # NoArg /\ args.to # NoArg
    THEN LET lo == IF s = "part_000" THEN Min2(args.from, args.to) ELSE args.from
             hi == IF s = "part_000" THEN Max2(args.from, args.to) ELSE args.to
         IN [ok |-> IF s = "part_000" THEN lo >= MIN_YEAR /\ hi <= MAX_YEAR ELSE hi >= lo,
             mode |-> "BackfillRange",
             startISO |-> YearStart(lo), endISO |-> YearStart(hi + 1)]
    ELSE [ok |-> TRUE, mode |-> "Incremental",
          startISO |-> addHoursISO(clampISO(cache.lastProcessedISO), 0 - BUFFER_HOURS),
          endISO |-> clock]

\* the in-memory cache after the metadata / method block at the top of main
PrepareCache(s, loaded) ==
    IF s = "part_000"
    THEN IF loaded.method # METHOD(s)
         THEN [loaded EXCEPT !.method = METHOD(s), !.events = << >>]
         ELSE loaded
    ELSE [loaded EXCEPT !.method = METHOD(s), !.thresholdsNAVD88 = <<THRESH_NAVD88>>]

\* did the method block clear the events
MethodReset(s, loaded) == s = "part_000" /\ loaded.method # METHOD(s)

\* variant: no updater checks the thresholds field
MissingThresholds_Never(s, loaded) == FALSE

\* part_000 dies when the cache has no thresholdsNAVD88
MissingThresholds(s, loaded) == s = "part_000" /\ loaded.thresholdsNAVD88 = << >>

\* the run ends without reaching saveJSON
EndRun(p, outcome, step, answer, exit) ==
    /\ pc' = [pc EXCEPT ![p] = "idle"]
    /\ run' = [run EXCEPT ![p] = BlankRun]
    /\ result' = [result EXCEPT ![p] =
                    [NoResult EXCEPT !.outcome = outcome, !.step = step,
                                     !.answer = answer, !.exit = exit,
                                     !.mode = run[p].mode, !.endISO = run[p].endISO,
                                     !.reset = run[p].reset]]

\* main(): loadJSON .. window selection
Load(p) ==
    /\ pc[p] = "idle"
    /\ runs < MaxRuns
    /\ \E clock \in Clock, args \in ArgChoices :
         /\ clock >= now
         /\ now' = clock
         /\ LET w == WindowOf(script, args, PrepareCache(script, file), clock)
            IN IF MissingThresholds(script, file) \/ ~w.ok
               THEN EndRun(p, "failed", "load", "none", 1)
               ELSE /\ pc' = [pc EXCEPT ![p] = "loaded"]
                    /\ run' = [run EXCEPT ![p] =
                                 [cache |-> PrepareCache(script, file), args |-> args,
                                  mode |-> w.mode,
                                  startISO |-> w.startISO, endISO |-> w.endISO,
                                  series |-> << >>, reset |-> MethodReset(script, file)]]
                    /\ result' = [result EXCEPT ![p] = NoResult]
    /\ runs' = runs + 1
    /\ UNCHANGED <<script, file, upstream, tide, call, ret>>

(***************************************************************************)
(* The observation provider and fetchUSGSIV.                               *)
(***************************************************************************)
Samples == [t : SampleInstants, ft : SampleValues]

\* what the provider may answer for [startISO, endISO]: at most MaxSeries
\* samples, one per instant, none from the future, in any order
ProviderSeries(startISO, endISO, clock) ==
    { s \in UNION { [1..n -> Samples] : n \in 0..MaxSeries } :
        /\ \A i \in 1..Len(s) : s[i].t >= startISO /\ s[i].t <= endISO /\ s[i].t <= clock
        /\ \A i, j \in 1..Len(s) : i # j => s[i].t # s[j].t }

\* fetchUSGSIV throws (HTTP error): main().catch exits 1
FetchSeriesThrows(p) ==
    /\ pc[p] = "loaded"
    /\ EndRun(p, "failed", "series", "throw", 1)
    /\ UNCHANGED <<script, file, now, runs, upstream, tide, call, ret>>

\* variant: an empty series is treated as a failed fetch
FetchSeries_EmptyFails(p) ==
    /\ pc[p] = "loaded"
    /\ \E raw \in ProviderSeries(run[p].startISO, run[p].endISO, now) :
         LET series == SortByT(raw)
         IN IF series = << >>
            THEN EndRun(p, "failed", "series", "empty", 1)
            ELSE /\ pc' = [pc EXCEPT ![p] = "fetched"]
                 /\ run' = [run EXCEPT ![p].series = series]
                 /\ UNCHANGED result
    /\ UNCHANGED <<script, file, now, runs, upstream, tide, call, ret>>

\* main() after fetchUSGSIV answered raw: the series is sorted by time, and an
\* empty series ends the run
TakeSeries(p, raw) ==
    LET series == SortByT(raw)
    IN IF series = << >>
       THEN EndRun(p, "skipped", "series", "empty", 0)
       ELSE /\ pc' = [pc EXCEPT ![p] = "fetched"]
            /\ run' = [run EXCEPT ![p].series = series]
            /\ UNCHANGED result

\* fetchUSGSIV returns the series sorted by time; an empty series ends the run
FetchSeries(p) ==
    /\ pc[p] = "loaded"
    /\ \E raw \in ProviderSeries(run[p].startISO, run[p].endISO, now) :
         TakeSeries(p, raw)
    /\ UNCHANGED <<script, file, now, runs, upstream, tide, call, ret>>

(***************************************************************************)
(* The crest provider, fetchNOAAHiloPredictionsHighs, and the rest of main.*)
(***************************************************************************)
DayOf(t) == t \div 24

\* predicted highs for the padded window, sorted by time: NOAA is asked for
\* whole UTC days begin_date..end_date
ProviderHighs(startISO, endISO) ==
    { h \in UNION { [1..n -> CrestInstants] : n \in 0..MaxCrests } :
        /\ \A i \in 1..Len(h) :
             /\ DayOf(h[i]) >= DayOf(addHoursISO(startISO, 0 - PRED_PAD_HOURS))
             /\ DayOf(h[i]) <= DayOf(addHoursISO(endISO, PRED_PAD_HOURS))
        /\ \A i, j \in 1..Len(h) : i < j => h[i] <= h[j] }

\* saveJSON(CACHE_PATH, cache): the document replaces the file
saveJSON(cache) == cache

\* variant: the in-memory cache is flushed before the error propagates
FetchHighsThrows_SavesCache(p) ==
    /\ pc[p] = "fetched"
    /\ EndRun(p, "failed", "highs", "throw", 1)
    /\ file' = saveJSON(run[p].cache)
    /\ UNCHANGED <<script, now, runs, upstream, tide, call, ret>>

\* fetchNOAAHiloPredictionsHighs throws (HTTP error): main().catch exits 1
FetchHighsThrows(p) ==
    /\ pc[p] = "fetched"
    /\ EndRun(p, "failed", "highs", "throw", 1)
    /\ UNCHANGED <<script, file, now, runs, upstream, tide, call, ret>>

\* the thresholds main hands to the builder
ThresholdsOf(cache) == cache.thresholdsNAVD88[1]

\* variant: the cache file is read again just before the merge
Finish_RereadsFile(p, predictedHighs) ==
    IF predictedHighs = << >>
    THEN /\ EndRun(p, "skipped", "highs", "empty", 0)
         /\ UNCHANGED file
    ELSE LET cache == PrepareCache(script, file)
             crestHighs == buildCrestAnchoredHighEvents(run[p].series, predictedHighs,
                                                        ThresholdsOf(run[p].cache))
             m == MergeEvents(cache.events, crestHighs)
             merged == [cache EXCEPT !.events = m.events]
         IN /\ file' = saveJSON(AdvanceLastProcessed(merged, run[p].series))
            /\ pc' = [pc EXCEPT ![p] = "idle"]
            /\ run' = [run EXCEPT ![p] = BlankRun]
            /\ result' = [result EXCEPT ![p] =
                            [outcome |-> "saved", step |-> "save", answer |-> "data", exit |-> 0,
                             mode |-> run[p].mode, endISO |-> run[p].endISO,
                             reset |-> run[p].reset, crestHighs |-> crestHighs,
                             added |-> m.added, updated |-> m.updated, writes |-> 1]]

\* main() after fetchNOAAHiloPredictionsHighs answered predictedHighs: an
\* empty list ends the run; else build, merge, sort, advance, save
Finish(p, predictedHighs) ==
    IF predictedHighs = << >>
    THEN /\ EndRun(p, "skipped", "highs", "empty", 0)
         /\ UNCHANGED file
    ELSE LET cache == run[p].cache
             crestHighs == buildCrestAnchoredHighEvents(run[p].series, predictedHighs,
                                                        ThresholdsOf(cache))
             m == MergeEvents(cache.events, crestHighs)
             merged == [cache EXCEPT !.events = m.events]
         IN /\ file' = saveJSON(AdvanceLastProcessed(merged, run[p].series))
            /\ pc' = [pc EXCEPT ![p] = "idle"]
            /\ run' = [run EXCEPT ![p] = BlankRun]
            /\ result' = [result EXCEPT ![p] =
                            [outcome |-> "saved", step |-> "save", answer |-> "data", exit |-> 0,
                             mode |-> run[p].mode, endISO |-> run[p].endISO,
                             reset |-> run[p].reset, crestHighs |-> crestHighs,
                             added |-> m.added, updated |-> m.updated, writes |-> 1]]

\* main() from the crest fetch to the end
BuildMergeSave(p) ==
    /\ pc[p] = "fetched"
    /\ \E predictedHighs \in ProviderHighs(run[p].startISO, run[p].endISO) :
         Finish(p, predictedHighs)
    /\ UNCHANGED <<script, now, runs, upstream, tide, call, ret>>

\* runs of the updater follow one another (a scheduled job)
Next ==
    \/ Load("A")
    \/ FetchSeriesThrows("A")
    \/ FetchSeries("A")
    \/ FetchHighsThrows("A")
    \/ BuildMergeSave("A")

Spec == Init /\ [][Next]_vars

(***************************************************************************)
(* The updaters started on a hand-edited cache: data/peaks_navd88.json is  *)
(* a file in the repository whose thresholdsNAVD88 block is typed in by    *)
(* the maintainer (the die message of part_000:281-284 tells them to).     *)
(***************************************************************************)
\* a thresholds block with minorLow and moderateLow exchanged
SwappedThresholds == [minorLow |-> 51900, moderateLow |-> 41900, majorLow |-> 61900]

SeededCaches(s) ==
    { [method |-> METHOD(s), thresholdsNAVD88 |-> th, lastProcessedISO |-> l, events |-> ev] :
        th \in {<<CacheThresholds>>, <<SwappedThresholds>>}, l \in {NoISO, 8782},
        ev \in {<< >>, <<StoredCrestHigh>>} }

InitSeeded ==
    /\ script \in Scripts
    /\ file \in SeededCaches(script)
    /\ now = 8783
    /\ pc = [p \in Procs |-> "idle"]
    /\ run = [p \in Procs |-> BlankRun]
    /\ result = [p \in Procs |-> NoResult]
    /\ runs = 0
    /\ upstream = {}
    /\ tide = {}
    /\ call = NoCall
    /\ ret = NoRet

SpecSeeded == InitSeeded /\ [][Next]_vars

(***************************************************************************)
(* Overlapping runs. main() takes no lock on the cache file and awaits two *)
(* fetches between loadJSON and saveJSON, so a second run of the updater   *)
(* (a manual dispatch during a scheduled run) may load, fetch and save     *)
(* while the first one is waiting.                                         *)
(***************************************************************************)
NextRace ==
    \E p \in Procs :
        \/ Load(p)
        \/ FetchSeriesThrows(p)
        \/ FetchSeries(p)
        \/ FetchHighsThrows(p)
        \/ BuildMergeSave(p)

\* both runs start from a cache the same updater wrote: the clock stands at
\* the later of the two instants, one event is stored
InitRace ==
    /\ script \in Scripts
    /\ file = [method |-> METHOD(script), thresholdsNAVD88 |-> <<CacheThresholds>>,
               lastProcessedISO |-> 8782, events |-> <<StoredCrestHigh>>]
    /\ now = 8786
    /\ pc = [p \in Procs |-> "idle"]
    /\ run = [p \in Procs |-> BlankRun]
    /\ result = [p \in Procs |-> NoResult]
    /\ runs = 0
    /\ upstream = {}
    /\ tide = {}
    /\ call = NoCall
    /\ ret = NoRet

SpecRace == InitRace /\ [][NextRace]_vars

(***************************************************************************)
(* The updaters fed by providers that answer in full: the observation      *)
(* provider returns every sample it holds in the window asked for, the     *)
(* crest provider every predicted high of the days asked for. Samples      *)
(* reach the provider in any order, late ones included, and are never      *)
(* revised.                                                                *)
(***************************************************************************)
\* what the observation provider may hold at clock: one sample per instant
HeldSets(clock) ==
    { h \in SUBSET Samples :
        /\ \A x \in h : x.t <= clock
        /\ \A x, y \in h : x.t = y.t => x = y }

\* a set of records with distinct t, or a set of instants, as a list sorted by time
RECURSIVE ListByT(_)
ListByT(S) ==
    IF S = {} THEN << >>
    ELSE LET first == CHOOSE x \in S : \A y \in S : x.t <= y.t
         IN <<first>> \o ListByT(S \ {first})

RECURSIVE ListAscending(_)
ListAscending(S) ==
    IF S = {} THEN << >>
    ELSE LET first == CHOOSE x \in S : \A y \in S : x <= y
         IN <<first>> \o ListAscending(S \ {first})

InitHeld ==
    /\ script \in Scripts
    /\ file \in InitialCaches(script)
    /\ now = 8783
    /\ pc = [p \in Procs |-> "idle"]
    /\ run = [p \in Procs |-> BlankRun]
    /\ result = [p \in Procs |-> NoResult]
    /\ runs = 0
    /\ upstream \in HeldSets(now)
    /\ tide \in SUBSET CrestInstants
    /\ call = NoCall
    /\ ret = NoRet

\* time passes between two runs
Tick ==
    /\ \A p \in Procs : pc[p] = "idle"
    /\ \E clock \in Clock : clock > now /\ now' = clock
    /\ UNCHANGED <<script, file, pc, run, result, runs, upstream, tide, call, ret>>

\* a sample reaches the observation provider between two runs
Arrive ==
    /\ \A p \in Procs : pc[p] = "idle"
    /\ \E x \in Samples :
         /\ x.t <= now
         /\ \A y \in upstream : y.t # x.t
         /\ upstream' = upstream \cup {x}
    /\ UNCHANGED <<script, file, now, pc, run, result, runs, tide, call, ret>>

\* fetchUSGSIV answered with every sample held in [startISO, endISO]
FetchSeriesHeld(p) ==
    /\ pc[p] = "loaded"
    /\ TakeSeries(p, ListByT({x \in upstream :
                                x.t >= run[p].startISO /\ x.t <= run[p].endISO}))
    /\ UNCHANGED <<script, file, now, runs, upstream, tide, call, ret>>

\* fetchNOAAHiloPredictionsHighs answered with every predicted high of the
\* days begin_date..end_date
BuildMergeSaveHeld(p) ==
    /\ pc[p] = "fetched"
    /\ Finish(p, ListAscending({c \in tide :
             /\ DayOf(c) >= DayOf(addHoursISO(run[p].startISO, 0 - PRED_PAD_HOURS))
             /\ DayOf(c) <= DayOf(addHoursISO(run[p].endISO, PRED_PAD_HOURS))}))
    /\ UNCHANGED <<script, now, runs, upstream, tide, call, ret>>

NextHeld ==
    \/ Tick
    \/ Arrive
    \/ Load("A")
    \/ FetchSeriesThrows("A")
    \/ FetchSeriesHeld("A")
    \/ FetchHighsThrows("A")
    \/ BuildMergeSaveHeld("A")

SpecHeld == InitHeld /\ [][NextHeld]_vars

(***************************************************************************)
(* buildCrestAnchoredHighEvents applied on its own to every time-ordered   *)
(* series and crest list over GridInstants.                                *)
(***************************************************************************)
\* the rest of the program is at rest while a function is applied on its own
AtRest ==
    /\ script = "part_000"
    /\ file = BlankCache
    /\ now = 8783
    /\ pc = [p \in Procs |-> "idle"]
    /\ run = [p \in Procs |-> BlankRun]
    /\ result = [p \in Procs |-> NoResult]
    /\ runs = 0
    /\ upstream = {}
    /\ tide = {}

\* series as fetchUSGSIV returns them: one sample per instant, sorted by t
GridSeries ==
    { s \in UNION { [1..n -> [t : GridInstants, ft : SampleValues]] : n \in 0..MaxPts } :
        \A i \in 1..(Len(s) - 1) : s[i].t < s[i + 1].t }

\* crest lists as fetchNOAAHiloPredictionsHighs returns them: sorted by time
GridHighs ==
    { h \in UNION { [1..n -> GridInstants] : n \in 0..MaxMarks } :
        \A i \in 1..(Len(h) - 1) : h[i] <= h[i + 1] }

InitBuilder ==
    /\ AtRest
    /\ call \in [fn : {"buildCrestAnchoredHighEvents"}, series : GridSeries,
                  predictedHighs : GridHighs]
    /\ ret = NoRet

ApplyBuilder ==
    /\ call.fn = "buildCrestAnchoredHighEvents"
    /\ ~ret.done
    /\ ret' = [done |-> TRUE,
               value |-> buildCrestAnchoredHighEvents(call.series, call.predictedHighs,
                                                      THRESH_NAVD88)]
    /\ UNCHANGED <<script, file, now, pc, run, result, runs, upstream, tide, call>>

NextBuilder == ApplyBuilder

SpecBuilder == InitBuilder /\ [][NextBuilder]_vars

(***************************************************************************)
(* The NWPS updater, src/tools /update_seabright_peaks_navd88.js.          *)
(* Points are [t, navd88]: t in hours, navd88 in 1e-3 ft.                  *)
(***************************************************************************)
\* the inner loop: Math.min over points[lo..hi]
LocalMin(points, lo, hi) ==
    CHOOSE v \in {points[j].navd88 : j \in lo..hi} :
        \A j \in lo..hi : v <= points[j].navd88

\* variant: every candidate is pushed, whatever its distance from the last peak
RECURSIVE PeaksLoop_PushAlways(_, _, _, _, _)
PeaksLoop_PushAlways(points, i, peaks, minSeparationHours, minProminenceFt) ==
    IF i > Len(points) - 1 THEN peaks
    ELSE LET q == points[i]
             prev == points[i - 1]
             next == points[i + 1]
             lo == Max2(1, i - windowPts)
             hi == Min2(Len(points), i + windowPts)
         IN IF ~(q.navd88 >= prev.navd88 /\ q.navd88 >= next.navd88)
            THEN PeaksLoop_PushAlways(points, i + 1, peaks, minSeparationHours, minProminenceFt)
            ELSE IF q.navd88 - LocalMin(points, lo, hi) < minProminenceFt
            THEN PeaksLoop_PushAlways(points, i + 1, peaks, minSeparationHours, minProminenceFt)
            ELSE PeaksLoop_PushAlways(points, i + 1, Append(peaks, q),
                                      minSeparationHours, minProminenceFt)

\* variant: a candidate within minSeparation of the last peak is dropped
\* without comparing the values
RECURSIVE PeaksLoop_KeepsFirst(_, _, _, _, _)
PeaksLoop_KeepsFirst(points, i, peaks, minSeparationHours, minProminenceFt) ==
    IF i > Len(points) - 1 THEN peaks
    ELSE LET q == points[i]
             prev == points[i - 1]
             next == points[i + 1]
             lo == Max2(1, i - windowPts)
             hi == Min2(Len(points), i + windowPts)
         IN IF ~(q.navd88 >= prev.navd88 /\ q.navd88 >= next.navd88)
            THEN PeaksLoop_KeepsFirst(points, i + 1, peaks, minSeparationHours, minProminenceFt)
            ELSE IF q.navd88 - LocalMin(points, lo, hi) < minProminenceFt
            THEN PeaksLoop_KeepsFirst(points, i + 1, peaks, minSeparationHours, minProminenceFt)
            ELSE IF peaks # << >> /\ q.t - peaks[Len(peaks)].t < minSeparationHours
            THEN PeaksLoop_KeepsFirst(points, i + 1, peaks, minSeparationHours, minProminenceFt)
            ELSE PeaksLoop_KeepsFirst(points, i + 1, Append(peaks, q),
                                      minSeparationHours, minProminenceFt)

\* variant: prominence is measured against the minimum of the whole series
RECURSIVE PeaksLoop_GlobalMin(_, _, _, _, _)
PeaksLoop_GlobalMin(points, i, peaks, minSeparationHours, minProminenceFt) ==
    IF i > Len(points) - 1 THEN peaks
    ELSE LET q == points[i]
             prev == points[i - 1]
             next == points[i + 1]
         IN IF ~(q.navd88 >= prev.navd88 /\ q.navd88 >= next.navd88)
            THEN PeaksLoop_GlobalMin(points, i + 1, peaks, minSeparationHours, minProminenceFt)
            ELSE IF q.navd88 - LocalMin(points, 1, Len(points)) < minProminenceFt
            THEN PeaksLoop_GlobalMin(points, i + 1, peaks, minSeparationHours, minProminenceFt)
            ELSE IF peaks # << >> /\ q.t - peaks[Len(peaks)].t < minSeparationHours
            THEN IF q.navd88 > peaks[Len(peaks)].navd88
                 THEN PeaksLoop_GlobalMin(points, i + 1, [peaks EXCEPT ![Len(peaks)] = q],
                                          minSeparationHours, minProminenceFt)
                 ELSE PeaksLoop_GlobalMin(points, i + 1, peaks,
                                          minSeparationHours, minProminenceFt)
            ELSE PeaksLoop_GlobalMin(points, i + 1, Append(peaks, q),
                                     minSeparationHours, minProminenceFt)

\* the for loop of findPeaks; i is the 1-based index of the candidate
RECURSIVE PeaksLoop(_, _, _, _, _)
PeaksLoop(points, i, peaks, minSeparationHours, minProminenceFt) ==
    IF i > Len(points) - 1 THEN peaks
    ELSE LET q == points[i]
             prev == points[i - 1]
             next == points[i + 1]
             lo == Max2(1, i - windowPts)
             hi == Min2(Len(points), i + windowPts)
         IN IF ~(q.navd88 >= prev.navd88 /\ q.navd88 >= next.navd88)
            THEN PeaksLoop(points, i + 1, peaks, minSeparationHours, minProminenceFt)
            ELSE IF q.navd88 - LocalMin(points, lo, hi) < minProminenceFt
            THEN PeaksLoop(points, i + 1, peaks, minSeparationHours, minProminenceFt)
            ELSE IF peaks # << >> /\ q.t - peaks[Len(peaks)].t < minSeparationHours
            THEN IF q.navd88 > peaks[Len(peaks)].navd88
                 THEN PeaksLoop(points, i + 1, [peaks EXCEPT ![Len(peaks)] = q],
                                minSeparationHours, minProminenceFt)
                 ELSE PeaksLoop(points, i + 1, peaks, minSeparationHours, minProminenceFt)
            ELSE PeaksLoop(points, i + 1, Append(peaks, q),
                           minSeparationHours, minProminenceFt)

findPeaks(points, minSeparationHours, minProminenceFt) ==
    PeaksLoop(points, 2, << >>, minSeparationHours, minProminenceFt)

\* series as extractPoints returns them: sorted, one point per instant (here
\* one point every hour)
HourlyPoints ==
    { [i \in 1..Len(v) |-> [t |-> 8760 + i, navd88 |-> v[i]]] :
        v \in UNION { [1..n -> PointValues] : n \in 0..MaxPoints } }

\* gaps[1] + .. + gaps[i]
RECURSIVE SumTo(_, _)
SumTo(gaps, i) == IF i = 0 THEN 0 ELSE gaps[i] + SumTo(gaps, i - 1)

\* shorter series with gaps of 1 h or 4 h between consecutive points
GappedPoints ==
    { [i \in 1..Len(v) |-> [t |-> 8760 + SumTo(g, i), navd88 |-> v[i]]] :
        v \in UNION { [1..n -> PointValues] : n \in 3..(MaxPoints - 4) },
        g \in [1..(MaxPoints - 4) -> {1, 4}] }

InitPeaks ==
    /\ AtRest
    /\ call \in [fn : {"findPeaks"}, points : HourlyPoints \cup GappedPoints,
                  minSeparationHours : Separations, minProminenceFt : Prominences]
    /\ ret = NoRet

ApplyFindPeaks ==
    /\ call.fn = "findPeaks"
    /\ ~ret.done
    /\ ret' = [done |-> TRUE,
               value |-> findPeaks(call.points, call.minSeparationHours,
                                   call.minProminenceFt)]
    /\ UNCHANGED <<script, file, now, pc, run, result, runs, upstream, tide, call>>

NextPeaks == ApplyFindPeaks

SpecPeaks == InitPeaks /\ [][NextPeaks]_vars

\* SITE.thresholdsNavd88, in 1e-3 ft
SITE_thresholdsNavd88 == [minor |-> 3100, moderate |-> 4100, major |-> 5100]

classify(navd88Ft) ==
    IF navd88Ft >= SITE_thresholdsNavd88.major THEN "major"
    ELSE IF navd88Ft >= SITE_thresholdsNavd88.moderate THEN "moderate"
    ELSE IF navd88Ft >= SITE_thresholdsNavd88.minor THEN "minor"
    ELSE "none"

\* SITE.mllwToNavd88OffsetFt, in 1e-3 ft
mllwToNavd88OffsetFt == 2100

\* Number(x.toFixed(2)): 1e-3 ft to 1e-2 ft
toFixed2(x) == (x + 5) \div 10

\* Map.prototype.set
MapSet(map, k, v) == [x \in DOMAIN map \cup {k} |-> IF x = k THEN v ELSE map[x]]

\* for (const e of existing) map.set(e.time, e)
RECURSIVE LoadMap(_, _, _)
LoadMap(existing, i, map) ==
    IF i > Len(existing) THEN map
    ELSE LoadMap(existing, i + 1, MapSet(map, existing[i].time, existing[i]))

\* the row mergeByTime makes of an incoming peak
RowOf(q) ==
    [time |-> q.t, navd88_ft |-> toFixed2(q.navd88), mllw_ft |-> toFixed2(q.mllw),
     category |-> classify(q.navd88), source |-> q.source]

\* variant: a collision is always settled by the higher navd88_ft
RECURSIVE MergeIncoming_HigherOnly(_, _, _)
MergeIncoming_HigherOnly(map, incoming, i) ==
    IF i > Len(incoming) THEN map
    ELSE LET row == RowOf(incoming[i])
         IN IF row.time \notin DOMAIN map
            THEN MergeIncoming_HigherOnly(MapSet(map, row.time, row), incoming, i + 1)
            ELSE IF row.navd88_ft > map[row.time].navd88_ft
                 THEN MergeIncoming_HigherOnly(MapSet(map, row.time, row), incoming, i + 1)
                 ELSE MergeIncoming_HigherOnly(map, incoming, i + 1)

\* for (const p of incoming) { ... }
RECURSIVE MergeIncoming(_, _, _)
MergeIncoming(map, incoming, i) ==
    IF i > Len(incoming) THEN map
    ELSE LET row == RowOf(incoming[i])
         IN IF row.time \notin DOMAIN map
            THEN MergeIncoming(MapSet(map, row.time, row), incoming, i + 1)
            ELSE LET cur == map[row.time]
                 IN IF cur.source = "forecast" /\ row.source = "observed"
                    THEN MergeIncoming(MapSet(map, row.time, row), incoming, i + 1)
                    ELSE IF row.navd88_ft > cur.navd88_ft
                    THEN MergeIncoming(MapSet(map, row.time, row), incoming, i + 1)
                    ELSE MergeIncoming(map, incoming, i + 1)

\* Array.from(map.values()).sort(by time): the keys of a Map are distinct
RECURSIVE RowsByTime(_)
RowsByTime(map) ==
    IF DOMAIN map = {} THEN << >>
    ELSE LET first == CHOOSE k \in DOMAIN map : \A x \in DOMAIN map : k <= x
         IN <<map[first]>> \o RowsByTime([x \in DOMAIN map \ {first} |-> map[x]])

mergeByTime(existing, incoming) ==
    RowsByTime(MergeIncoming(LoadMap(existing, 1, << >>), incoming, 1))

\* what findPeaks may return for one feed: peaks at distinct, increasing instants
PeakLists(source) ==
    { q \in UNION { [1..n -> [t : PeakInstants, navd88 : PeakLevels]] :
                      n \in 0..Cardinality(PeakInstants) } :
        \A i \in 1..(Len(q) - 1) : q[i].t < q[i + 1].t }

\* .map(p => ({ ...p, source })) followed by .filter(keep)
Kept(q, source) ==
    SelectSeq([i \in 1..Len(q) |->
                  [t |-> q[i].t, navd88 |-> q[i].navd88,
                   mllw |-> q[i].navd88 + mllwToNavd88OffsetFt, source |-> source]],
              LAMBDA x : x.navd88 >= SITE_thresholdsNavd88.minor)

\* the output file does not exist before the first run of the NWPS updater
InitNwps ==
    /\ script = "update_seabright_peaks_navd88"
    /\ file = << >>
    /\ now = 8783
    /\ pc = [p \in Procs |-> "idle"]
    /\ run = [p \in Procs |-> BlankRun]
    /\ result = [p \in Procs |-> NoResult]
    /\ runs = 0
    /\ upstream = {}
    /\ tide = {}
    /\ call = NoCall
    /\ ret = NoRet

\* main() of the NWPS updater from the two findPeaks calls to writeFileSync
NwpsRun ==
    /\ runs < MaxRuns
    /\ \E obsPeaks \in PeakLists("observed"), fcstPeaks \in PeakLists("forecast") :
         LET peaksToWrite == Kept(obsPeaks, "observed") \o Kept(fcstPeaks, "forecast")
             existing == file
             merged == mergeByTime(existing, peaksToWrite)
         IN /\ call' = [fn |-> "mergeByTime", existing |-> existing,
                        incoming |-> peaksToWrite]
            /\ ret' = [done |-> TRUE, value |-> merged]
            /\ file' = merged
    /\ runs' = runs + 1
    /\ UNCHANGED <<script, now, pc, run, result, upstream, tide>>

NextNwps == NwpsRun

SpecNwps == InitNwps /\ [][NextNwps]_vars

(***************************************************************************)
(* The declustering updater, src/tools/update_peaks_navd88.js:1-213, and   *)
(* extractPoints of the NWPS updater. Points are [t, v]: t in hours, v in  *)
(* 1e-3 ft.                                                                *)
(***************************************************************************)
\* the loop of uniqSortByTime: the key of a point is `${p.t}|${p.v}`
RECURSIVE UniqLoop(_, _, _, _)
UniqLoop(points, i, seen, out) ==
    IF i > Len(points) THEN out
    ELSE LET key == <<points[i].t, points[i].v>>
         IN IF key \in seen
            THEN UniqLoop(points, i + 1, seen, out)
            ELSE UniqLoop(points, i + 1, seen \cup {key}, Append(out, points[i]))

uniqSortByTime(points) == SortByT(UniqLoop(points, 1, {}, << >>))

\* variant: a cluster is closed only by a gap of more than twice the window
RECURSIVE ClusterLoop_WideGap(_, _, _, _, _)
ClusterLoop_WideGap(pts, i, cur, clusters, minSepMinutes) ==
    IF i > Len(pts) THEN Append(clusters, cur)
    ELSE IF 60 * (pts[i].t - pts[i - 1].t) <= 2 * minSepMinutes
         THEN ClusterLoop_WideGap(pts, i + 1, Append(cur, pts[i]), clusters, minSepMinutes)
         ELSE ClusterLoop_WideGap(pts, i + 1, <<pts[i]>>, Append(clusters, cur), minSepMinutes)

\* declusterMax: the loop that cuts the sorted points into clusters
RECURSIVE ClusterLoop(_, _, _, _, _)
ClusterLoop(pts, i, cur, clusters, minSepMinutes) ==
    IF i > Len(pts) THEN Append(clusters, cur)
    ELSE IF 60 * (pts[i].t - pts[i - 1].t) <= minSepMinutes
         THEN ClusterLoop(pts, i + 1, Append(cur, pts[i]), clusters, minSepMinutes)
         ELSE ClusterLoop(pts, i + 1, <<pts[i]>>, Append(clusters, cur), minSepMinutes)

\* let max = c[0]; for (const p of c) if (p.v > max.v) max = p
RECURSIVE MaxOfCluster(_, _, _)
MaxOfCluster(c, i, max) ==
    IF i > Len(c) THEN max
    ELSE MaxOfCluster(c, i + 1, IF c[i].v > max.v THEN c[i] ELSE max)

declusterMax(points, minSepMinutes) ==
    IF points = << >> THEN << >>
    ELSE LET pts == SortByT(points)
             clusters == ClusterLoop(pts, 2, <<pts[1]>>, << >>, minSepMinutes)
         IN SortByT([k \in 1..Len(clusters) |->
                        MaxOfCluster(clusters[k], 1, clusters[k][1])])

\* extractPoints, lines 108-119: sort by time, then skip a point whose time
\* equals that of the point before it
RECURSIVE DedupeLoop(_, _, _, _)
DedupeLoop(points, i, lastMs, deduped) ==
    IF i > Len(points) THEN deduped
    ELSE IF points[i].t = lastMs
         THEN DedupeLoop(points, i + 1, lastMs, deduped)
         ELSE DedupeLoop(points, i + 1, points[i].t, Append(deduped, points[i]))

extractPoints(points) == DedupeLoop(SortByT(points), 1, NoISO, << >>)

IvPoints == [t : IvInstants, v : IvValues]

\* what the USGS IV service may answer: points in time order, one per instant;
\* a value may differ from the one an earlier answer gave for the same instant
IvAnswers ==
    { a \in UNION { [1..n -> IvPoints] : n \in 0..MaxIv } :
        \A i \in 1..(Len(a) - 1) : a[i].t < a[i + 1].t }

\* rows of an NWPS payload, in any order and with repeated times
PayloadRows == UNION { [1..n -> IvPoints] : n \in 0..MaxIv }

\* safeReadJson gives null: the output file does not exist yet
NoPayload == [obs_points_navd88 |-> << >>, peaks_navd88 |-> << >>]

InitDecluster ==
    /\ script = "update_peaks_navd88_decluster"
    /\ file = NoPayload
    /\ now = 8783
    /\ pc = [p \in Procs |-> "idle"]
    /\ run = [p \in Procs |-> BlankRun]
    /\ result = [p \in Procs |-> NoResult]
    /\ runs = 0
    /\ upstream = {}
    /\ tide = {}
    /\ call = NoCall
    /\ ret = NoRet

\* main() of the declustering updater; call and ret record its call of
\* declusterMax at line 189
DeclusterRun ==
    /\ runs < MaxRuns
    /\ \E ivPoints \in IvAnswers :
         LET existingPoints == file.obs_points_navd88
             merged == uniqSortByTime(existingPoints \o ivPoints)
             peaks == declusterMax(merged, PEAK_MIN_SEP_MINUTES)
         IN /\ call' = [fn |-> "declusterMax", points |-> merged,
                        minSepMinutes |-> PEAK_MIN_SEP_MINUTES]
            /\ ret' = [done |-> TRUE, value |-> peaks]
            /\ file' = [obs_points_navd88 |-> merged, peaks_navd88 |-> peaks]
    /\ runs' = runs + 1
    /\ UNCHANGED <<script, now, pc, run, result, upstream, tide>>

\* extractPoints applied to the rows of a payload
ApplyExtractPoints ==
    /\ ~ret.done
    /\ \E rows \in PayloadRows :
         /\ call' = [fn |-> "extractPoints", points |-> rows]
         /\ ret' = [done |-> TRUE, value |-> extractPoints(rows)]
    /\ UNCHANGED <<script, file, now, pc, run, result, runs, upstream, tide>>

\* lists of points in any order, as declusterMax accepts them
PointLists == UNION { [1..n -> IvPoints] : n \in 0..MaxPts }

\* declusterMax applied to a list of points
ApplyDeclusterMax ==
    /\ ~ret.done
    /\ \E points \in PointLists, minSepMinutes \in SepMinutes :
         /\ call' = [fn |-> "declusterMax", points |-> points,
                     minSepMinutes |-> minSepMinutes]
         /\ ret' = [done |-> TRUE, value |-> declusterMax(points, minSepMinutes)]
    /\ UNCHANGED <<script, file, now, pc, run, result, runs, upstream, tide>>

NextDecluster == DeclusterRun \/ ApplyExtractPoints \/ ApplyDeclusterMax

SpecDecluster == InitDecluster /\ [][NextDecluster]_vars

(***************************************************************************)
(* The classifiers applied on their own: classifyNAVD to every strictly    *)
(* increasing threshold triple over ThresholdLevels, classify to the site  *)
(* thresholds, and to values at, just below and just above each level.     *)
(***************************************************************************)
ThresholdTriples ==
    { T \in [minorLow : ThresholdLevels, moderateLow : ThresholdLevels,
             majorLow : ThresholdLevels] :
        T.minorLow < T.moderateLow /\ T.moderateLow < T.majorLow }

Around(L) == UNION { {x - 1, x, x + 1} : x \in L }

InitClassify ==
    /\ AtRest
    /\ \/ call \in [fn : {"classifyNAVD"}, ft : Around(ThresholdLevels), T : ThresholdTriples]
       \/ call \in [fn : {"classify"},
                     navd88Ft : Around({SITE_thresholdsNavd88.minor,
                                        SITE_thresholdsNavd88.moderate,
                                        SITE_thresholdsNavd88.major})]
    /\ ret = NoRet

ApplyClassifyNAVD ==
    /\ call.fn = "classifyNAVD"
    /\ ~ret.done
    /\ ret' = [done |-> TRUE, value |-> classifyNAVD(call.ft, call.T)]
    /\ UNCHANGED <<script, file, now, pc, run, result, runs, upstream, tide, call>>

ApplyClassify ==
    /\ call.fn = "classify"
    /\ ~ret.done
    /\ ret' = [done |-> TRUE, value |-> classify(call.navd88Ft)]
    /\ UNCHANGED <<script, file, now, pc, run, result, runs, upstream, tide, call>>

NextClassify == ApplyClassifyNAVD \/ ApplyClassify

SpecClassify == InitClassify /\ [][NextClassify]_vars

(***************************************************************************)
(* Properties.                                                             *)
(***************************************************************************)
SetMax(S) == CHOOSE x \in S : \A y \in S : y <= x

\* crest keys of an events list
KeysOf(events) == {events[i].crest : i \in 1..Len(events)} \ {NoCrest}

\* the ft values an events list stores for crest key k
FtOf(events, k) == {events[i].ft : i \in {j \in 1..Len(events) : events[j].crest = k}}

\* run p takes the step that ends in saveJSON
Saves(p) == pc[p] = "fetched" /\ result'[p].outcome = "saved"

\* t does not decrease / strictly increases along a list
NonDecreasingT(s) == \A i \in 1..(Len(s) - 1) : s[i].t <= s[i + 1].t
StrictlyIncreasingT(s) == \A i \in 1..(Len(s) - 1) : s[i].t < s[i + 1].t

\* C1: merging the batch a run has just merged into the cache a second time
\* changes nothing: same events in the same order, 0 added, 0 updated.
C1_IdempotentMerge ==
    \A p \in Procs :
        result[p].outcome = "saved" =>
            MergeEvents(file.events, result[p].crestHighs)
                = [events |-> file.events, added |-> 0, updated |-> 0]

C1_Witness ==
    /\ result["A"].outcome = "saved"
    /\ result["A"].added > 0
    /\ result["A"].updated > 0

\* C2: after a merge the ft stored for a crest key is the maximum of the
\* finite ft stored before and the values merged for that key (so a stored
\* finite ft never decreases, whichever of two values arrives first).
C2_KeepBest ==
    [][\A p \in Procs : Saves(p) =>
          \A k \in KeysOf(run[p].cache.events) \cup KeysOf(result'[p].crestHighs) :
              LET before == FtOf(run[p].cache.events, k)
                  finite == {x \in before \cup FtOf(result'[p].crestHighs, k) : IsFiniteFt(x)}
              IN FtOf(file'.events, k) = IF finite = {} THEN before ELSE {SetMax(finite)}]_vars

\* a lower value arrived for a key that already stored a higher one
C2_Witness ==
    /\ result["A"].outcome = "saved"
    /\ \E e \in Range(result["A"].crestHighs), f \in Range(file.events) :
          f.crest = e.crest /\ IsFiniteFt(f.ft) /\ f.ft > e.ft

\* C3: a run that loads a cache with another method tag starts from an empty
\* events list, tag set to METHOD, lastProcessedISO as loaded; what it then
\* writes holds only events built by this run.
C3_MethodChangeReset ==
    [][\A p \in Procs :
          /\ (pc[p] = "idle" /\ pc'[p] = "loaded" /\ file.method # METHOD(script)) =>
                /\ run'[p].cache.events = << >>
                /\ run'[p].cache.method = METHOD(script)
                /\ run'[p].cache.lastProcessedISO = file.lastProcessedISO
          /\ (Saves(p) /\ file.method # METHOD(script)) =>
                /\ file'.method = METHOD(script)
                /\ Range(file'.events) \subseteq Range(result'[p].crestHighs)]_vars

\* C4: no two events of the persisted cache share a crest key.
C4_UniqueCrestKeys ==
    \A i, j \in 1..Len(file.events) :
        (i # j /\ file.events[i].crest # NoCrest) => file.events[i].crest # file.events[j].crest

\* a saved batch that carried the same crest twice
C4_Witness ==
    /\ result["A"].outcome = "saved"
    /\ \E i, j \in 1..Len(result["A"].crestHighs) :
          i < j /\ result["A"].crestHighs[i].crest = result["A"].crestHighs[j].crest

\* C5 as stated: builder output and persisted events strictly increase in t.
C5_StrictlySortedByT ==
    /\ StrictlyIncreasingT(file.events)
    /\ \A p \in Procs : StrictlyIncreasingT(result[p].crestHighs)

\* C5 amended: builder output and persisted events are in non-decreasing
\* order of t.
C5_SortedByT ==
    /\ NonDecreasingT(file.events)
    /\ \A p \in Procs : NonDecreasingT(result[p].crestHighs)

\* two stored events of different crests share their observed time, and the
\* run inserted an event in front of a stored one
C5_Witness ==
    /\ result["A"].outcome = "saved"
    /\ \E i \in 1..(Len(file.events) - 1) :
          /\ file.events[i].t = file.events[i + 1].t
          /\ file.events[i].crest # file.events[i + 1].crest

\* C6: a run that saves without a method reset keeps every crest key that
\* the cache file held.
C6_NoLossOfKeys ==
    [][\A p \in Procs : (Saves(p) /\ ~run[p].reset) =>
          /\ KeysOf(file.events) \subseteq KeysOf(file'.events)
          /\ Len(file'.events) = Len(file.events) + result'[p].added]_vars

\* a run without reset added a key next to the stored ones
C6_Witness ==
    /\ result["A"].outcome = "saved"
    /\ ~result["A"].reset
    /\ result["A"].added > 0
    /\ Len(file.events) > result["A"].added

\* C7: an incremental run never moves the persisted lastProcessedISO
\* backward.
C7_LastProcessedMonotone ==
    [][\A p \in Procs : (Saves(p) /\ run[p].mode = "Incremental") =>
          file'.lastProcessedISO >= file.lastProcessedISO]_vars

\* C8 as stated: after a backfill run lastProcessedISO is the end of the
\* requested window.
C8_BackfillEndsAtWindowEnd ==
    [][\A p \in Procs : (Saves(p) /\ run[p].mode \in {"BackfillYear", "BackfillRange"}) =>
          file'.lastProcessedISO = run[p].endISO]_vars

\* C8 amended: after a backfill run lastProcessedISO is the time of the
\* newest sample of the fetched series.
C8_BackfillEndsAtNewestSample ==
    [][\A p \in Procs : (Saves(p) /\ run[p].mode \in {"BackfillYear", "BackfillRange"}) =>
          file'.lastProcessedISO = SetMax({x.t : x \in Range(run[p].series)})]_vars

\* a backfill saved a lastProcessedISO short of the window end
C8_Witness ==
    /\ result["A"].outcome = "saved"
    /\ result["A"].mode \in {"BackfillYear", "BackfillRange"}
    /\ file.lastProcessedISO < result["A"].endISO

\* C9: the cache file changes only in the last step of a run that saves, by
\* one write; a run that fails leaves the file as it was.
C9_AtomicPersistence ==
    [][/\ file' # file => \E p \in Procs : Saves(p) /\ result'[p].writes = 1
       /\ \A p \in Procs :
            (pc[p] # "idle" /\ result'[p].outcome = "failed") =>
                file' = file /\ result'[p].writes = 0]_vars

\* the crest fetch threw after the in-memory cache had been reset
C9_Witness ==
    /\ result["A"].outcome = "failed"
    /\ result["A"].step = "highs"
    /\ result["A"].reset
    /\ file.events # << >>

\* C10: an empty series or an empty list of predicted highs ends the run
\* normally, with no event added and the cache file not written.
C10_EmptyInputsSkip ==
    [][\A p \in Procs :
          (pc[p] # "idle" /\ pc'[p] = "idle" /\ result'[p].answer = "empty") =>
                /\ result'[p].outcome = "skipped"
                /\ result'[p].exit = 0
                /\ result'[p].added = 0
                /\ result'[p].writes = 0
                /\ file' = file]_vars

\* the crest fetch returned no predicted highs
C10_Witness ==
    /\ result["A"].answer = "empty"
    /\ result["A"].step = "highs"
    /\ file.events # << >>

\* some process starts a run: main() runs from loadJSON to the window selection
Starts == runs' = runs + 1

\* the run that has just started died in main() before its first fetch
DiedAtLoad ==
    /\ pc' = pc
    /\ \E p \in Procs :
          /\ pc[p] = "idle"
          /\ result'[p].outcome = "failed"
          /\ result'[p].exit = 1
          /\ result'[p].step = "load"
          /\ result'[p].writes = 0
    /\ file' = file

\* C11 (as claimed): a run that loads a cache document with no thresholds
\* field ends fatally (exit 1) before any fetch, merge or write, whichever
\* updater runs, and leaves the cache file untouched.
C11_MissingThresholdsFatal ==
    [][(Starts /\ file.thresholdsNAVD88 = << >>) => DiedAtLoad]_vars

\* C11 (amended): the updater that reads its thresholds from the cache
\* (part_000) ends fatally on a cache with no thresholds field, before any
\* fetch, merge or write; and whenever it does save, the thresholds written
\* are the ones it loaded, never substituted ones.
C11_MissingThresholdsFatalWhenCached ==
    [][script = "part_000" =>
          /\ (Starts /\ file.thresholdsNAVD88 = << >>) => DiedAtLoad
          /\ \A p \in Procs :
                Saves(p) => /\ file.thresholdsNAVD88 # << >>
                            /\ file'.thresholdsNAVD88 = file.thresholdsNAVD88]_vars

\* part_000 has died on a cache without thresholds, which is still in place
C11_Witness ==
    /\ script = "part_000"
    /\ file.thresholdsNAVD88 = << >>
    /\ file.events # << >>
    /\ result["A"].outcome = "failed"
    /\ result["A"].step = "load"
    /\ result["A"].exit = 1

AbsDiff(a, b) == IF a >= b THEN a - b ELSE b - a

\* indices of the samples of series within w hours of crest c
Within(series, c, w) == {i \in 1..Len(series) : AbsDiff(series[i].t, c) <= w}

\* buildCrestAnchoredHighEvents has returned
Built == call.fn = "buildCrestAnchoredHighEvents" /\ ret.done

\* C12: coverage gate: for a crest mark with no sample within the inner
\* window (1 h) the builder emits no event with that key, whether or not
\* samples lie within its outer window (2 h).
C12_CoverageGate ==
    Built =>
        \A k \in 1..Len(call.predictedHighs) :
            Within(call.series, call.predictedHighs[k], REQUIRE_WITHIN_HOURS) = {} =>
                \A n \in 1..Len(ret.value) : ret.value[n].crest # call.predictedHighs[k]

\* one crest has samples in its outer window but none within 1 h and got no
\* event, while another crest of the same list did
C12_Witness ==
    /\ Built
    /\ ret.value # << >>
    /\ \E k \in 1..Len(call.predictedHighs) :
          /\ Within(call.series, call.predictedHighs[k], CREST_WINDOW_HOURS) # {}
          /\ Within(call.series, call.predictedHighs[k], REQUIRE_WITHIN_HOURS) = {}
          /\ \A n \in 1..Len(ret.value) : ret.value[n].crest # call.predictedHighs[k]

\* the crest marks (positions in the list) with a sample within the inner window
CoveredMarks(series, highs) ==
    {k \in 1..Len(highs) : Within(series, highs[k], REQUIRE_WITHIN_HOURS) # {}}

\* a full scan of the series for crest c: the index of the highest sample
\* within the outer window, the earliest one on ties
FullScanBest(series, c) ==
    CHOOSE i \in Within(series, c, CREST_WINDOW_HOURS) :
        \A j \in Within(series, c, CREST_WINDOW_HOURS) :
            series[j].ft < series[i].ft \/ (series[j].ft = series[i].ft /\ j >= i)

\* C13: for a time-ordered crest list the builder emits, in list order, exactly
\* one event per crest mark that has a sample within the inner window and none
\* for the others; the event's key is the crest, its t is the time of the
\* highest sample among all samples within the outer window of the crest (the
\* earliest on ties) and its ft is that sample's value (rounded to 3
\* decimals): the result of the shared left pointer equals a full scan of the
\* series per crest.
C13_EqualsFullScan ==
    Built =>
        LET series == call.series
            highs == call.predictedHighs
            covered == CoveredMarks(series, highs)
        IN /\ Len(ret.value) = Cardinality(covered)
           /\ \A k \in covered :
                 LET n == Cardinality({j \in covered : j <= k})
                     b == FullScanBest(series, highs[k])
                 IN /\ ret.value[n].crest = highs[k]
                    /\ ret.value[n].t = series[b].t
                    /\ ret.value[n].ft = roundFt(series[b].ft)

\* two crests with overlapping outer windows: the later crest's maximum is a
\* sample that also lies in the earlier crest's window and precedes the
\* earlier crest, and both crests got their event
C13_Witness ==
    /\ Built
    /\ Len(call.predictedHighs) = 2
    /\ call.predictedHighs[1] < call.predictedHighs[2]
    /\ Len(ret.value) = 2
    /\ ret.value[2].t < call.predictedHighs[1]
    /\ ret.value[1].t # ret.value[2].t
    /\ Len(call.series) = 3

\* findPeaks has returned
Found == call.fn = "findPeaks" /\ ret.done

\* the positions of points that pass the local-maximum and prominence tests
Candidates(points, minProminenceFt) ==
    { i \in 2..(Len(points) - 1) :
        /\ points[i].navd88 >= points[i - 1].navd88
        /\ points[i].navd88 >= points[i + 1].navd88
        /\ \E j \in 1..Len(points) :
              /\ AbsDiff(i, j) <= windowPts
              /\ points[i].navd88 - points[j].navd88 >= minProminenceFt }

\* C14: no two peaks returned by findPeaks are closer in time than
\* minSeparationHours, also after a later, higher candidate has replaced the
\* last accepted peak in place.
C14_PeaksSeparated ==
    Found =>
        \A i, j \in 1..Len(ret.value) :
            i < j => ret.value[j].t - ret.value[i].t >= call.minSeparationHours

\* the second peak returned took the place of an earlier, lower candidate that
\* had been accepted at least minSeparationHours after the first peak
C14_Witness ==
    /\ Found
    /\ Len(ret.value) >= 2
    /\ \E c \in Candidates(call.points, call.minProminenceFt) :
          /\ call.points[c].t < ret.value[2].t
          /\ ret.value[2].t - call.points[c].t < call.minSeparationHours
          /\ call.points[c].navd88 < ret.value[2].navd88
          /\ call.points[c].t - ret.value[1].t >= call.minSeparationHours

\* C15: every peak returned by findPeaks is an interior point of the series
\* whose level is at least that of both immediate neighbours and exceeds the
\* lowest level among the points at most windowPts positions away (clamped to
\* the series) by at least minProminenceFt; a series of fewer than 3 points
\* yields no peaks.
C15_PeaksAreProminentMaxima ==
    Found =>
        /\ Len(call.points) < 3 => ret.value = << >>
        /\ \A n \in 1..Len(ret.value) :
              \E i \in Candidates(call.points, call.minProminenceFt) :
                  call.points[i] = ret.value[n]

\* a peak was returned from a series in which another local maximum is
\* prominent only against a minimum lying more than windowPts positions away,
\* and was not returned
C15_Witness ==
    /\ Found
    /\ ret.value # << >>
    /\ \E i \in 2..(Len(call.points) - 1) :
          /\ call.points[i].navd88 >= call.points[i - 1].navd88
          /\ call.points[i].navd88 >= call.points[i + 1].navd88
          /\ i \notin Candidates(call.points, call.minProminenceFt)
          /\ \E j \in 1..Len(call.points) :
                call.points[i].navd88 - call.points[j].navd88 >= call.minProminenceFt
          /\ \A n \in 1..Len(ret.value) : ret.value[n] # call.points[i]

\* the ladder read as four half-open intervals, in the names of each classifier
Ladder(value, minor, moderate, major, names) ==
    /\ value >= major => ret.value = names[4]
    /\ (moderate <= value /\ value < major) => ret.value = names[3]
    /\ (minor <= value /\ value < moderate) => ret.value = names[2]
    /\ value < minor => ret.value = names[1]
    /\ ret.value = names[4] => value >= major
    /\ ret.value = names[3] => (moderate <= value /\ value < major)
    /\ ret.value = names[2] => (minor <= value /\ value < moderate)
    /\ ret.value = names[1] => value < minor

\* C16: for every value and strictly increasing threshold triple the
\* classifier returns Major iff value >= major, Moderate iff moderate <= value
\* < major, Minor iff minor <= value < moderate and the lowest category iff
\* value < minor; a value equal to a threshold gets that threshold's category.
C16_ClassifierLadder ==
    /\ (call.fn = "classifyNAVD" /\ ret.done) =>
          Ladder(call.ft, call.T.minorLow, call.T.moderateLow, call.T.majorLow,
                 <<"Below", "Minor", "Moderate", "Major">>)
    /\ (call.fn = "classify" /\ ret.done) =>
          Ladder(call.navd88Ft, SITE_thresholdsNavd88.minor,
                 SITE_thresholdsNavd88.moderate, SITE_thresholdsNavd88.major,
                 <<"none", "minor", "moderate", "major">>)

\* a value equal to the moderate threshold was classified Moderate
C16_Witness ==
    /\ call.fn = "classifyNAVD"
    /\ ret.done
    /\ call.ft = call.T.moderateLow
    /\ ret.value = "Moderate"

\* mergeByTime has returned
Merged == call.fn = "mergeByTime" /\ ret.done

\* the rows of a list for time t, in list order
AtTime(rows, t) == SelectSeq(rows, LAMBDA r : r.time = t)

\* the rows mergeByTime makes of the incoming peaks, in batch order
IncomingRows == [i \in 1..Len(call.incoming) |-> RowOf(call.incoming[i])]

\* every time present in the stored list or in the batch
TimesMerged == {call.existing[i].time : i \in 1..Len(call.existing)}
               \cup {call.incoming[i].t : i \in 1..Len(call.incoming)}

\* C17 (as claimed): a key collision in mergeByTime is settled by the higher
\* value alone: the row returned for a time carries the highest navd88_ft of
\* the stored and incoming rows for that time, whatever their sources and
\* order of arrival.
C17_HigherValueWins ==
    Merged =>
        \A t \in TimesMerged :
            LET all == AtTime(call.existing, t) \o AtTime(IncomingRows, t)
                kept == AtTime(ret.value, t)
            IN /\ Len(kept) = 1
               /\ \E i \in 1..Len(all) : all[i] = kept[1]
               /\ \A i \in 1..Len(all) : all[i].navd88_ft <= kept[1].navd88_ft

\* the collision rule of mergeByTime for a stored row cur and an incoming row
Resolve(cur, row) ==
    IF cur.source = "forecast" /\ row.source = "observed" THEN row
    ELSE IF row.navd88_ft > cur.navd88_ft THEN row
    ELSE cur

RECURSIVE ResolveAll(_, _, _)
ResolveAll(cur, rows, i) ==
    IF i > Len(rows) THEN cur ELSE ResolveAll(Resolve(cur, rows[i]), rows, i + 1)

\* C17 (amended): for every time, the row returned is the outcome of settling
\* the collisions for that time one incoming row after the other: an incoming
\* observed row replaces a stored forecast row whatever the values; in every
\* other case the incoming row replaces the stored row only when its
\* 2-decimal navd88_ft is strictly higher.
C17_ObservedOverForecastElseHigher ==
    Merged =>
        \A t \in TimesMerged :
            LET old == AtTime(call.existing, t)
                new == AtTime(IncomingRows, t)
                kept == AtTime(ret.value, t)
            IN /\ Len(kept) = 1
               /\ kept[1] = IF old = << >> THEN ResolveAll(new[1], new, 2)
                             ELSE ResolveAll(old[Len(old)], new, 1)

\* a stored forecast row gave way to an incoming observed row of lower value
C17_Witness ==
    /\ Merged
    /\ \E i \in 1..Len(call.existing), j \in 1..Len(call.incoming), k \in 1..Len(ret.value) :
          /\ call.existing[i].time = call.incoming[j].t
          /\ call.existing[i].source = "forecast"
          /\ call.incoming[j].source = "observed"
          /\ RowOf(call.incoming[j]).navd88_ft < call.existing[i].navd88_ft
          /\ ret.value[k] = RowOf(call.incoming[j])
          /\ \A m \in 1..Len(call.incoming) :
                call.incoming[m].t = call.incoming[j].t => m = j

\* C18: when an observed row and a forecast row for the same time are both
\* merged, in one batch or over successive runs and in either order, the row
\* stored for that time has source "observed".
C18_ObservedPreferred ==
    Merged =>
        \A t \in TimesMerged :
            LET all == AtTime(call.existing, t) \o AtTime(IncomingRows, t)
                kept == AtTime(ret.value, t)
            IN ((\E i \in 1..Len(all) : all[i].source = "observed")
                  /\ (\E i \in 1..Len(all) : all[i].source = "forecast"))
               => (Len(kept) = 1 /\ kept[1].source = "observed")

\* the calendar, counted year by year from 2000-01-01T00:00Z: 365 days a
\* year and one more for every leap year in between
IsLeap(y) == y % 4 = 0 /\ (y % 100 # 0 \/ y % 400 = 0)
LeapYears(a, b) == Cardinality({k \in a..b : IsLeap(k)})

Jan1(y) == IF y >= 2000
           THEN 24 * (365 * (y - 2000) + LeapYears(2000, y - 1))
           ELSE 0 - 24 * (365 * (2000 - y) + LeapYears(y, 1999))

\* C20: the fetch window is fixed when the run starts, from the invocation
\* mode alone: --backfill-year=y gives [Jan 1 y, Jan 1 y+1); --backfill-from
\* with --backfill-to gives [Jan 1 lo, Jan 1 hi+1) for the inclusive span of
\* years lo..hi; neither depends on the cache's lastProcessedISO. Only a run
\* with no backfill selection (neither a year nor both ends of a range) gets
\* [lastProcessedISO - 12 h, now], with 2000-01-01 for an absent
\* lastProcessedISO. The window stays the same until the run ends.
C20_WindowFromModeAlone ==
    [][\A p \in Procs :
          /\ (pc[p] = "idle" /\ pc'[p] = "loaded") =>
                LET a == run'[p].args
                    lo == IF a.from <= a.to THEN a.from ELSE a.to
                    hi == IF a.from <= a.to THEN a.to ELSE a.from
                IN IF a.year # NoArg
                   THEN /\ run'[p].mode = "BackfillYear"
                        /\ run'[p].startISO = Jan1(a.year)
                        /\ run'[p].endISO = Jan1(a.year + 1)
                   ELSE IF a.from # NoArg /\ a.to # NoArg
                   THEN /\ run'[p].mode = "BackfillRange"
                        /\ run'[p].startISO = Jan1(lo)
                        /\ run'[p].endISO = Jan1(hi + 1)
                   ELSE /\ run'[p].mode = "Incremental"
                        /\ run'[p].startISO =
                             (IF file.lastProcessedISO = NoISO THEN Jan1(2000)
                              ELSE file.lastProcessedISO) - BUFFER_HOURS
                        /\ run'[p].endISO = now'
          /\ (pc[p] # "idle" /\ pc'[p] # "idle") =>
                /\ run'[p].mode = run[p].mode
                /\ run'[p].startISO = run[p].startISO
                /\ run'[p].endISO = run[p].endISO]_vars

\* a range backfill given as from=2001, to=2000 runs over
\* [2000-01-01, 2002-01-01) on a cache whose lastProcessedISO is 2000-12-31T22:00Z
C20_Witness ==
    /\ pc["A"] = "fetched"
    /\ run["A"].args.from = 2001
    /\ run["A"].args.to = 2000
    /\ run["A"].startISO = 0
    /\ run["A"].endISO = 17544
    /\ file.lastProcessedISO = 8782

\* the samples the provider holds within w hours of crest c
HeldWithin(c, w) == {x \in upstream : AbsDiff(x.t, c) <= w}

\* the predicted crests whose outer window contains instant t
CrestsAround(t) == {c \in tide : AbsDiff(c, t) <= CREST_WINDOW_HOURS}

\* C19: boundary crests are not missed. When an incremental run follows a run
\* that left lastProcessedISO = L, it fetches from L - 12 h, so for every
\* predicted crest whose outer window (2 h each side) contains L the whole
\* window is scanned again: once the run has saved, if the provider holds a
\* sample within 1 h of such a crest, the cache holds an event for it whose ft
\* is at least the highest value (as stored, to 3 decimals) the provider holds
\* in the crest's outer window.
C19_BoundaryCrestsRescanned ==
    [][\A p \in Procs :
          (Saves(p) /\ run[p].mode = "Incremental" /\ file.lastProcessedISO # NoISO) =>
              /\ run[p].startISO = file.lastProcessedISO - BUFFER_HOURS
              /\ \A c \in CrestsAround(file.lastProcessedISO) :
                    HeldWithin(c, REQUIRE_WITHIN_HOURS) # {} =>
                        \E i \in 1..Len(file'.events) :
                            /\ file'.events[i].crest = c
                            /\ IsFiniteFt(file'.events[i].ft)
                            /\ \A x \in HeldWithin(c, CREST_WINDOW_HOURS) :
                                  file'.events[i].ft >= roundFt(x.ft)]_vars

\* the second run was incremental and raised the stored maximum of a crest
\* whose window straddles the previous lastProcessedISO: the new maximum is a
\* sample older than the newest sample the cache had already processed
C19_Witness ==
    /\ runs = 2
    /\ result["A"].outcome = "saved"
    /\ result["A"].mode = "Incremental"
    /\ result["A"].updated > 0
    /\ \E i \in 1..Len(file.events) :
          /\ file.events[i].crest \in tide
          /\ file.events[i].t < file.lastProcessedISO
          /\ file.events[i].ft = roundFt(SetMax(SampleValues))
          /\ \E n \in 1..Len(result["A"].crestHighs) :
                result["A"].crestHighs[n] = file.events[i]

\* at most one entry of the list per timestamp
OnePerT(points) == \A i, j \in 1..Len(points) : points[i].t = points[j].t => i = j

\* C21: no two samples of a working series share a timestamp: the series
\* extractPoints returns and the merged series the declustering updater
\* builds with uniqSortByTime and persists as obs_points_navd88 each hold at
\* most one sample per timestamp.
C21_OneSamplePerTimestamp ==
    /\ (call.fn = "extractPoints" /\ ret.done) => OnePerT(ret.value)
    /\ script = "update_peaks_navd88_decluster" => OnePerT(file.obs_points_navd88)

\* the points of a list in time order, points of equal time in list order
InTimeOrder(points) == SortByT(points)

\* positions i..j of the time-ordered list lie in one run: every consecutive
\* pair between them is at most minSepMinutes apart
OneRun(pts, i, j, minSepMinutes) ==
    \A k \in i..(j - 1) : 60 * (pts[k + 1].t - pts[k].t) <= minSepMinutes

\* the positions at which a maximal run begins
RunStarts(pts, minSepMinutes) ==
    { i \in 1..Len(pts) : i = 1 \/ 60 * (pts[i].t - pts[i - 1].t) > minSepMinutes }

\* the maximal run that begins at position s
RunFrom(pts, s, minSepMinutes) ==
    { j \in s..Len(pts) : OneRun(pts, s, j, minSepMinutes) }

\* the first position of maximal value in a set of positions
FirstMax(pts, R) ==
    CHOOSE m \in R : /\ \A j \in R : pts[j].v <= pts[m].v
                     /\ \A j \in R : pts[j].v = pts[m].v => m <= j

\* peaks is what the claim describes for points and minSepMinutes
DeclusteredAsClaimed(points, minSepMinutes, peaks) ==
    LET pts == InTimeOrder(points)
        starts == RunStarts(pts, minSepMinutes)
    IN /\ Len(peaks) = Cardinality(starts)
       /\ \A s \in starts :
            peaks[Cardinality({x \in starts : x <= s})]
                = pts[FirstMax(pts, RunFrom(pts, s, minSepMinutes))]
       /\ \A a, b \in 1..Len(peaks) :
            a < b => 60 * (peaks[b].t - peaks[a].t) > minSepMinutes
       /\ \A i \in 1..Len(pts) :
            Cardinality({ k \in 1..Len(peaks) :
                            \E j \in 1..Len(pts) :
                               /\ pts[j] = peaks[k]
                               /\ OneRun(pts, IF i < j THEN i ELSE j,
                                         IF i < j THEN j ELSE i, minSepMinutes)
                               /\ peaks[k].v >= pts[i].v }) = 1

\* C25: declusterMax splits the time-sorted points into maximal runs whose
\* consecutive points are at most minSepMinutes apart and returns one point
\* per run, the first of maximal value, in time order; any two returned
\* peaks are more than minSepMinutes apart and every input point lies in the
\* run of exactly one returned peak, whose value is at least its own. This
\* holds for the function applied on its own and for the peaks main stores.
C25_OnePeakPerRun ==
    /\ (call.fn = "declusterMax" /\ ret.done)
         => DeclusteredAsClaimed(call.points, call.minSepMinutes, ret.value)
    /\ script = "update_peaks_navd88_decluster"
         => DeclusteredAsClaimed(file.obs_points_navd88, PEAK_MIN_SEP_MINUTES,
                                 file.peaks_navd88)

\* C25 witness: main has stored two peaks of a series of at least four
\* points, one run holding its maximal value twice
C25_Witness ==
    /\ script = "update_peaks_navd88_decluster"
    /\ runs > 0
    /\ Len(file.peaks_navd88) = 2
    /\ Len(file.obs_points_navd88) >= 4
    /\ \E i, j \in 1..Len(file.obs_points_navd88) :
         /\ i < j
         /\ file.obs_points_navd88[i].v = file.obs_points_navd88[j].v
         /\ file.obs_points_navd88[i] = file.peaks_navd88[1]
         /\ file.obs_points_navd88[j].t > file.obs_points_navd88[i].t
         /\ 60 * (file.obs_points_navd88[j].t - file.obs_points_navd88[i].t)
               <= PEAK_MIN_SEP_MINUTES

\* C22: without mutual exclusion the file after a save holds only the saving
\* run's own merge result: the crest keys of the cache that run loaded and
\* of its own batch, and its own newest sample time as lastProcessedISO, so
\* whatever another run saved after this run's load is absent; a run whose
\* loaded cache is still what the file holds (no save in between) and that
\* did not reset the events loses no crest key of the file.
C22_LastWriterWins ==
    [][\A p \in Procs : Saves(p) =>
          /\ KeysOf(file'.events)
                = KeysOf(run[p].cache.events) \cup KeysOf(result'[p].crestHighs)
          /\ file'.lastProcessedISO = run[p].series[Len(run[p].series)].t
          /\ (run[p].cache = PrepareCache(script, file) /\ ~run[p].reset)
                => KeysOf(file.events) \subseteq KeysOf(file'.events)]_vars

\* C22 witness: both runs have saved, and a crest key that run A contributed
\* is absent from the file: B loaded before A saved and saved after it
C22_Witness ==
    /\ result["A"].outcome = "saved"
    /\ result["B"].outcome = "saved"
    /\ pc["A"] = "idle" /\ pc["B"] = "idle"
    /\ ~result["B"].reset
    /\ \E k \in KeysOf(result["A"].crestHighs) : k \notin KeysOf(file.events)

\* minor < moderate < major
StrictlyIncreasing(T) == T.minorLow < T.moderateLow /\ T.moderateLow < T.majorLow

\* C23: thresholds are validated on load: a run whose loaded thresholds are
\* not strictly increasing ends at load, before any event is classified or
\* the cache is written, so every cache a run merges into and writes has
\* minor < moderate < major.
C23_ThresholdsValidated ==
    /\ \A p \in Procs :
          pc[p] # "idle" => StrictlyIncreasing(ThresholdsOf(run[p].cache))
    /\ \A p \in Procs :
          result[p].outcome = "saved" => StrictlyIncreasing(ThresholdsOf(file))

\* the events an events list stores for crest key k
EventsOf(events, k) == {events[i] : i \in {j \in 1..Len(events) : events[j].crest = k}}

\* C24: merge frame condition: for a crest key already stored, when no new
\* event of the batch has an ft strictly higher than a finite stored ft the
\* stored event is written back with t, ft, type, kind and crest unchanged;
\* otherwise the event written is, field for field, one new event of the
\* batch with the same crest key, never a mix of two candidates.
C24_MergeFrame ==
    [][\A p \in Procs : Saves(p) =>
          \A k \in KeysOf(run[p].cache.events) :
              LET stored == EventsOf(run[p].cache.events, k)
                  batch == EventsOf(result'[p].crestHighs, k)
                  written == EventsOf(file'.events, k)
                  better == { e \in batch :
                                \E o \in stored :
                                    ~IsFiniteFt(o.ft) \/ (IsFiniteFt(e.ft) /\ e.ft > o.ft) }
              IN /\ Cardinality(written) = 1
                 /\ better = {} => written = stored
                 /\ better # {} => written \subseteq better]_vars

\* C24 witness: a run on a cache of two stored events added none and
\* replaced at least one of them
C24_Witness ==
    /\ result["A"].outcome = "saved"
    /\ result["A"].added = 0
    /\ result["A"].updated > 0
    /\ Len(file.events) = 2
    /\ \E i \in 1..Len(file.events), j \in 1..Len(result["A"].crestHighs) :
         file.events[i] = result["A"].crestHighs[j]

\* C26: category consistency of stored events: the type of every event a
\* crest-anchored run writes from its batch equals the classification of the
\* event's stored, 3-decimal ft under the thresholds of the cache document
\* written with it.
C26_TypeMatchesStoredFt ==
    \A p \in Procs :
        result[p].outcome = "saved" =>
            \A i \in 1..Len(result[p].crestHighs) :
                result[p].crestHighs[i].type
                    = classifyNAVD(10 * result[p].crestHighs[i].ft, ThresholdsOf(file))

\* the events of a list that carry a crest key
Keyed(events) == {events[i] : i \in {j \in 1..Len(events) : events[j].crest # NoCrest}}

\* C27: the observed time of every event the builder produced for a run, and
\* of every keyed event in the cache file (after inserts and keep-best
\* updates alike), lies within the outer window of its crest key:
\* |t - crest| <= 2 h.
C27_ObservedWithinOuterWindow ==
    /\ \A p \in Procs : \A e \in Keyed(result[p].crestHighs) :
          AbsDiff(e.t, e.crest) <= CREST_WINDOW_HOURS
    /\ \A e \in Keyed(file.events) : AbsDiff(e.t, e.crest) <= CREST_WINDOW_HOURS

\* C27 witness: a run updated a stored event, and the file holds two events
\* of its batch, one observed after its crest and one observed before it
C27_Witness ==
    /\ result["A"].outcome = "saved"
    /\ result["A"].updated > 0
    /\ \E d, e \in Keyed(file.events) :
         /\ d.t > d.crest
         /\ e.t < e.crest
         /\ d \in Keyed(result["A"].crestHighs)
         /\ e \in Keyed(result["A"].crestHighs)

\* C28: findPeaks never loses the highest candidate: when the series has a
\* candidate (an interior local maximum that passes the prominence test), the
\* maximum value over all candidates is the value of one of the returned
\* peaks.
C28_HighestCandidateKept ==
    Found =>
        LET cand == Candidates(call.points, call.minProminenceFt)
        IN cand # {} =>
             \E n \in 1..Len(ret.value) :
                 ret.value[n].navd88 = SetMax({call.points[i].navd88 : i \in cand})

\* C28 witness: the highest candidate came within minSeparation after a lower
\* candidate and took its place among the returned peaks
C28_Witness ==
    /\ Found
    /\ LET cand == Candidates(call.points, call.minProminenceFt)
       IN \E i, j \in cand :
            /\ i < j
            /\ call.points[j].t - call.points[i].t < call.minSeparationHours
            /\ call.points[i].navd88 < call.points[j].navd88
            /\ \A k \in cand : call.points[k].navd88 <= call.points[j].navd88
            /\ \E n \in 1..Len(ret.value) : ret.value[n] = call.points[j]
            /\ \A n \in 1..Len(ret.value) : ret.value[n] # call.points[i]

====
